---- MODULE Spec2Model ----
(***************************************************************************)
(* The opinion-market program (programs/opinion-market/src/lib.rs) as a    *)
(* state machine: the Market, Opinion and Reaction accounts, the per-market*)
(* escrow token account, the treasury and the callers' token accounts, and *)
(* one action per instruction.  An instruction that returns an error is    *)
(* rolled back whole by the runtime, so each action is guarded by "the     *)
(* instruction returns Ok"; the error an instruction returns for given     *)
(* arguments in a given state is the value of its ...Err operator, which   *)
(* lists the account constraints and the require! checks in source order.  *)
(*                                                                         *)
(* Amounts are the source's micro-USDC values.  Every amount of the model  *)
(* stays far below 2^31, so the u64 checked/saturating operations never    *)
(* reach their overflow branch here; products that would leave the range   *)
(* TLC evaluates are computed through MulDiv, which yields the same        *)
(* quotient.                                                               *)
(***************************************************************************)
EXTENDS Integers, FiniteSets, Sequences, TLC

\* ---- program constants (lib.rs 8-30) ----
CREATE_FEE == 5000000
MIN_STAKE == 500000
MAX_STAKE == 10000000
PROTOCOL_FEE_BPS == 1000
MAX_STATEMENT_LEN == 280
MAX_IPFS_CID_LEN == 64
WEIGHT_MULTIPLIER == 50
CONSENSUS_MULTIPLIER == 30
AI_MULTIPLIER == 20
DURATION_24H == 86400
DURATION_3D == 259200
DURATION_7D == 604800
DURATION_14D == 1209600
RECOVERY_PERIOD == 1209600

\* ---- bounds of the model ----
\* successful recover_stake calls followed per opinion
MaxRecoveries == 2
\* micro-USDC each user's token account holds at the start
StartBalance == 16000000

\* ---- identities and the inputs the instructions are called with ----
Users == {"alice", "bob"}
Oracle == "oracle"
Signers == Users \cup {Oracle}
Uuids == {1}
\* an address at which no account has been initialised
NoAccount == [initialized |-> FALSE]
\* Option<Pubkey>::None
None == "None"

StatementLens == {0, MAX_STATEMENT_LEN, MAX_STATEMENT_LEN + 1}
DurationInputs == {DURATION_24H, 3600}
Creators == {"alice"}
StakeInputs == {MIN_STAKE - 1, MIN_STAKE, MAX_STAKE, MAX_STAKE + 1}
ReactStakeInputs == {MIN_STAKE - 1, MIN_STAKE + 7, MAX_STAKE, MAX_STAKE + 1}
CidLens == {MAX_IPFS_CID_LEN, MAX_IPFS_CID_LEN + 1}
PredictionInputs == {50, 101}
ReactionTypes == {"Back", "Slash"}
SentimentInputs == {70, 101}
ConfidenceInputs == {1, 3}
AiScoreInputs == {50, 101}
CrowdInputs == {60, 101}
WeightInputs == {80, 101}
ConsensusInputs == {90, 101}
TotalScoreInputs == {0, 77, 154}
\* the instants at which the clock is observed: around closes_at and around
\* closes_at + RECOVERY_PERIOD of a 24h market created at 0
ClockInstants ==
    {0, DURATION_24H - 1, DURATION_24H,
     DURATION_24H + RECOVERY_PERIOD - 1, DURATION_24H + RECOVERY_PERIOD}

VARIABLES now, market, opinion, reaction, escrow, treasury, wallet,
          recoveries, payouts

vars == <<now, market, opinion, reaction, escrow, treasury, wallet,
          recoveries, payouts>>

\* ---- arithmetic ----
\* u64::saturating_add / u64::checked_add on amounts below the overflow range
saturating_add(a, b) == a + b
checked_add(a, b) == a + b
checked_sub(a, b) == a - b

\* a.checked_mul(b)?.checked_div(c)?  =  floor(a*b / c), evaluated in two
\* parts so that no intermediate product exceeds TLC's integers
MulDiv(a, b, c) == (a \div c) * b + ((a % c) * b) \div c

\* ---- token::transfer (SPL token program): fails when the source holds less
\* than the amount ----
CanTransfer(balance, amount) == balance >= amount

\* ---- account predicates ----
MarketExists(m) == market[m] # NoAccount
OpinionExists(m, u) == opinion[m][u] # NoAccount
ReactionExists(m, o, r) == reaction[m][o][r] # NoAccount

Init ==
    /\ now = 0
    /\ market = [m \in Uuids |-> NoAccount]
    /\ opinion = [m \in Uuids |-> [u \in Users |-> NoAccount]]
    /\ reaction = [m \in Uuids |-> [o \in Users |-> [r \in Users |-> NoAccount]]]
    /\ escrow = [m \in Uuids |-> 0]
    /\ treasury = 0
    /\ wallet = [u \in Users |-> StartBalance]
    /\ recoveries = [m \in Uuids |-> [u \in Users |-> 0]]
    /\ payouts = [m \in Uuids |-> [u \in Users |-> 0]]

\* ---- the clock sysvar: monotonic, advanced by the runtime ----
AdvanceClock(t) ==
    /\ t > now
    /\ now' = t
    /\ UNCHANGED <<market, opinion, reaction, escrow, treasury, wallet,
                   recoveries, payouts>>

\* ---- create_market ----
ValidDuration(d) == d \in {DURATION_24H, DURATION_3D, DURATION_7D, DURATION_14D}

\* mutant: a statement of exactly MAX_STATEMENT_LEN characters is refused
CreateMarketErr_LenBelowMax(creator, m, len, d) ==
    IF MarketExists(m) THEN "AccountInUse"
    ELSE IF len = 0 THEN "StatementEmpty"
    ELSE IF ~(len < MAX_STATEMENT_LEN) THEN "StatementTooLong"
    ELSE IF ~ValidDuration(d) THEN "InvalidDuration"
    ELSE IF ~CanTransfer(wallet[creator], CREATE_FEE) THEN "InsufficientFunds"
    ELSE "Ok"

CreateMarketErr(creator, m, len, d) ==
    IF MarketExists(m) THEN "AccountInUse"
    ELSE IF len = 0 THEN "StatementEmpty"
    ELSE IF ~(len <= MAX_STATEMENT_LEN) THEN "StatementTooLong"
    ELSE IF ~ValidDuration(d) THEN "InvalidDuration"
    ELSE IF ~CanTransfer(wallet[creator], CREATE_FEE) THEN "InsufficientFunds"
    ELSE "Ok"

NewMarket(creator, d) ==
    [creator |-> creator, created_at |-> now, closes_at |-> now + d,
     state |-> "Active",
     staker_count |-> 0, total_stake |-> 0, distributable_pool |-> 0,
     crowd_score |-> 0, sentiment_score |-> 0, confidence |-> 0,
     winner |-> None]

CreateMarket(creator, m, len, d) ==
    /\ CreateMarketErr(creator, m, len, d) = "Ok"
    /\ wallet' = [wallet EXCEPT ![creator] = @ - CREATE_FEE]
    /\ treasury' = treasury + CREATE_FEE
    /\ market' = [market EXCEPT ![m] = NewMarket(creator, d)]
    /\ UNCHANGED <<now, opinion, reaction, escrow, recoveries, payouts>>

\* ---- stake_opinion ----
\* mutant: an existing Opinion at the staker's address does not stop the call
StakeOpinionErr_NoUniqueness(staker, m, stake_amount, cid_len, prediction) ==
    IF ~MarketExists(m) THEN "AccountNotInitialized"
    ELSE IF ~(stake_amount >= MIN_STAKE) THEN "StakeTooSmall"
    ELSE IF ~(stake_amount <= MAX_STAKE) THEN "StakeTooLarge"
    ELSE IF ~(cid_len <= MAX_IPFS_CID_LEN) THEN "CidTooLong"
    ELSE IF ~(prediction <= 100) THEN "InvalidPrediction"
    ELSE IF ~(market[m].state = "Active") THEN "MarketNotActive"
    ELSE IF ~(now < market[m].closes_at) THEN "MarketExpired"
    ELSE IF ~CanTransfer(wallet[staker], stake_amount) THEN "InsufficientFunds"
    ELSE "Ok"

\* mutant: a stake of exactly MIN_STAKE is refused
StakeOpinionErr_StrictMin(staker, m, stake_amount, cid_len, prediction) ==
    IF ~MarketExists(m) THEN "AccountNotInitialized"
    ELSE IF OpinionExists(m, staker) THEN "AccountInUse"
    ELSE IF ~(stake_amount > MIN_STAKE) THEN "StakeTooSmall"
    ELSE IF ~(stake_amount <= MAX_STAKE) THEN "StakeTooLarge"
    ELSE IF ~(cid_len <= MAX_IPFS_CID_LEN) THEN "CidTooLong"
    ELSE IF ~(prediction <= 100) THEN "InvalidPrediction"
    ELSE IF ~(market[m].state = "Active") THEN "MarketNotActive"
    ELSE IF ~(now < market[m].closes_at) THEN "MarketExpired"
    ELSE IF ~CanTransfer(wallet[staker], stake_amount) THEN "InsufficientFunds"
    ELSE "Ok"

\* mutant: a stake is still accepted at the closing instant itself
StakeOpinionErr_AtClose(staker, m, stake_amount, cid_len, prediction) ==
    IF ~MarketExists(m) THEN "AccountNotInitialized"
    ELSE IF OpinionExists(m, staker) THEN "AccountInUse"
    ELSE IF ~(stake_amount >= MIN_STAKE) THEN "StakeTooSmall"
    ELSE IF ~(stake_amount <= MAX_STAKE) THEN "StakeTooLarge"
    ELSE IF ~(cid_len <= MAX_IPFS_CID_LEN) THEN "CidTooLong"
    ELSE IF ~(prediction <= 100) THEN "InvalidPrediction"
    ELSE IF ~(market[m].state = "Active") THEN "MarketNotActive"
    ELSE IF ~(now <= market[m].closes_at) THEN "MarketExpired"
    ELSE IF ~CanTransfer(wallet[staker], stake_amount) THEN "InsufficientFunds"
    ELSE "Ok"

StakeOpinionErr(staker, m, stake_amount, cid_len, prediction) ==
    IF ~MarketExists(m) THEN "AccountNotInitialized"
    ELSE IF OpinionExists(m, staker) THEN "AccountInUse"
    ELSE IF ~(stake_amount >= MIN_STAKE) THEN "StakeTooSmall"
    ELSE IF ~(stake_amount <= MAX_STAKE) THEN "StakeTooLarge"
    ELSE IF ~(cid_len <= MAX_IPFS_CID_LEN) THEN "CidTooLong"
    ELSE IF ~(prediction <= 100) THEN "InvalidPrediction"
    ELSE IF ~(market[m].state = "Active") THEN "MarketNotActive"
    ELSE IF ~(now < market[m].closes_at) THEN "MarketExpired"
    ELSE IF ~CanTransfer(wallet[staker], stake_amount) THEN "InsufficientFunds"
    ELSE "Ok"

NewOpinion(stake_amount, prediction) ==
    [stake_amount |-> stake_amount, prediction |-> prediction,
     backing_total |-> stake_amount, slashing_total |-> 0,
     weight_score |-> 0, consensus_score |-> 0, ai_score |-> 0,
     combined_score |-> 0, payout_amount |-> 0, paid |-> FALSE]

\* mutant: the new stake is counted in staker_count only
StakeOpinionMarket_NoTotal(mk, stake_amount) ==
    [mk EXCEPT !.staker_count = saturating_add(@, 1)]

StakeOpinionMarket(mk, stake_amount) ==
    [mk EXCEPT !.total_stake = saturating_add(@, stake_amount),
               !.staker_count = saturating_add(@, 1)]

StakeOpinion(staker, m, stake_amount, cid_len, prediction) ==
    /\ StakeOpinionErr(staker, m, stake_amount, cid_len, prediction) = "Ok"
    /\ wallet' = [wallet EXCEPT ![staker] = @ - stake_amount]
    /\ escrow' = [escrow EXCEPT ![m] = @ + stake_amount]
    /\ opinion' = [opinion EXCEPT ![m][staker] = NewOpinion(stake_amount, prediction)]
    /\ market' = [market EXCEPT ![m] = StakeOpinionMarket(@, stake_amount)]
    /\ UNCHANGED <<now, reaction, treasury, recoveries, payouts>>

\* ---- react_to_opinion ----
\* mutant: the market's state and closing time are not looked at
ReactToOpinionErr_NoMarketChecks(reactor, m, o, reaction_type, stake_amount) ==
    IF ~MarketExists(m) THEN "AccountNotInitialized"
    ELSE IF ~OpinionExists(m, o) THEN "AccountNotInitialized"
    ELSE IF ReactionExists(m, o, reactor) THEN "AccountInUse"
    ELSE IF ~(stake_amount >= MIN_STAKE) THEN "StakeTooSmall"
    ELSE IF ~(stake_amount <= MAX_STAKE) THEN "StakeTooLarge"
    ELSE IF ~(reactor # o) THEN "CannotReactToOwnOpinion"
    ELSE IF ~CanTransfer(wallet[reactor], stake_amount) THEN "InsufficientFunds"
    ELSE "Ok"

\* mutant: the staker may react to their own opinion
ReactToOpinionErr_OwnAllowed(reactor, m, o, reaction_type, stake_amount) ==
    IF ~MarketExists(m) THEN "AccountNotInitialized"
    ELSE IF ~OpinionExists(m, o) THEN "AccountNotInitialized"
    ELSE IF ReactionExists(m, o, reactor) THEN "AccountInUse"
    ELSE IF ~(stake_amount >= MIN_STAKE) THEN "StakeTooSmall"
    ELSE IF ~(stake_amount <= MAX_STAKE) THEN "StakeTooLarge"
    ELSE IF ~(market[m].state = "Active") THEN "MarketNotActive"
    ELSE IF ~(now < market[m].closes_at) THEN "MarketExpired"
    ELSE IF ~CanTransfer(wallet[reactor], stake_amount) THEN "InsufficientFunds"
    ELSE "Ok"

ReactToOpinionErr(reactor, m, o, reaction_type, stake_amount) ==
    IF ~MarketExists(m) THEN "AccountNotInitialized"
    ELSE IF ~OpinionExists(m, o) THEN "AccountNotInitialized"
    ELSE IF ReactionExists(m, o, reactor) THEN "AccountInUse"
    ELSE IF ~(stake_amount >= MIN_STAKE) THEN "StakeTooSmall"
    ELSE IF ~(stake_amount <= MAX_STAKE) THEN "StakeTooLarge"
    ELSE IF ~(market[m].state = "Active") THEN "MarketNotActive"
    ELSE IF ~(now < market[m].closes_at) THEN "MarketExpired"
    ELSE IF ~(reactor # o) THEN "CannotReactToOwnOpinion"
    ELSE IF ~CanTransfer(wallet[reactor], stake_amount) THEN "InsufficientFunds"
    ELSE "Ok"

\* mutant: every reaction is added to backing_total
ReactOpinion_AlwaysBack(op, reaction_type, stake_amount) ==
    [op EXCEPT !.backing_total = checked_add(@, stake_amount)]

ReactOpinion(op, reaction_type, stake_amount) ==
    IF reaction_type = "Back"
    THEN [op EXCEPT !.backing_total = checked_add(@, stake_amount)]
    ELSE [op EXCEPT !.slashing_total = checked_add(@, stake_amount)]

ReactMarket(mk, stake_amount) ==
    [mk EXCEPT !.total_stake = checked_add(@, stake_amount)]

ReactToOpinion(reactor, m, o, reaction_type, stake_amount) ==
    /\ ReactToOpinionErr(reactor, m, o, reaction_type, stake_amount) = "Ok"
    /\ wallet' = [wallet EXCEPT ![reactor] = @ - stake_amount]
    /\ escrow' = [escrow EXCEPT ![m] = @ + stake_amount]
    /\ opinion' = [opinion EXCEPT ![m][o] = ReactOpinion(@, reaction_type, stake_amount)]
    /\ reaction' = [reaction EXCEPT ![m][o][reactor] =
                       [reaction_type |-> reaction_type, stake_amount |-> stake_amount]]
    /\ market' = [market EXCEPT ![m] = ReactMarket(@, stake_amount)]
    /\ UNCHANGED <<now, treasury, recoveries, payouts>>

\* ---- close_market (permissionless) ----
\* mutant: the state is compared with Closed instead of Active
CloseMarketErr_WrongState(m) ==
    IF ~MarketExists(m) THEN "AccountNotInitialized"
    ELSE IF ~(market[m].state = "Closed") THEN "MarketNotActive"
    ELSE IF ~(now >= market[m].closes_at) THEN "MarketNotExpired"
    ELSE "Ok"

\* mutant: the Active check is missing
CloseMarketErr_NoStateCheck(m) ==
    IF ~MarketExists(m) THEN "AccountNotInitialized"
    ELSE IF ~(now >= market[m].closes_at) THEN "MarketNotExpired"
    ELSE "Ok"

CloseMarketErr(m) ==
    IF ~MarketExists(m) THEN "AccountNotInitialized"
    ELSE IF ~(market[m].state = "Active") THEN "MarketNotActive"
    ELSE IF ~(now >= market[m].closes_at) THEN "MarketNotExpired"
    ELSE "Ok"

CloseMarket(m) ==
    /\ CloseMarketErr(m) = "Ok"
    /\ market' = [market EXCEPT ![m].state = "Closed"]
    /\ UNCHANGED <<now, opinion, reaction, escrow, treasury, wallet,
                   recoveries, payouts>>

\* ---- record_sentiment (oracle) ----
\* mutant: the oracle_authority constraint is missing
RecordSentimentErr_AnySigner(signer, m, score, confidence) ==
    IF ~MarketExists(m) THEN "AccountNotInitialized"
    ELSE IF ~(score <= 100) THEN "InvalidScore"
    ELSE IF ~(confidence <= 2) THEN "InvalidConfidence"
    ELSE IF ~(market[m].state = "Closed") THEN "MarketNotClosed"
    ELSE "Ok"

RecordSentimentErr(signer, m, score, confidence) ==
    IF ~MarketExists(m) THEN "AccountNotInitialized"
    ELSE IF ~(signer = Oracle) THEN "Unauthorized"
    ELSE IF ~(score <= 100) THEN "InvalidScore"
    ELSE IF ~(confidence <= 2) THEN "InvalidConfidence"
    ELSE IF ~(market[m].state = "Closed") THEN "MarketNotClosed"
    ELSE "Ok"

RecordSentiment(signer, m, score, confidence) ==
    /\ RecordSentimentErr(signer, m, score, confidence) = "Ok"
    /\ market' = [market EXCEPT ![m] =
                     [@ EXCEPT !.sentiment_score = score,
                               !.confidence = confidence,
                               !.state = "Scored"]]
    /\ UNCHANGED <<now, opinion, reaction, escrow, treasury, wallet,
                   recoveries, payouts>>

\* ---- record_ai_score (oracle) ----
\* mutant: the Scored check is missing
RecordAiScoreErr_NoStateCheck(signer, m, o, ai_score) ==
    IF ~MarketExists(m) THEN "AccountNotInitialized"
    ELSE IF ~OpinionExists(m, o) THEN "AccountNotInitialized"
    ELSE IF ~(signer = Oracle) THEN "Unauthorized"
    ELSE IF ~(ai_score <= 100) THEN "InvalidScore"
    ELSE "Ok"

RecordAiScoreErr(signer, m, o, ai_score) ==
    IF ~MarketExists(m) THEN "AccountNotInitialized"
    ELSE IF ~OpinionExists(m, o) THEN "AccountNotInitialized"
    ELSE IF ~(signer = Oracle) THEN "Unauthorized"
    ELSE IF ~(ai_score <= 100) THEN "InvalidScore"
    ELSE IF ~(market[m].state = "Scored") THEN "MarketNotScored"
    ELSE "Ok"

RecordAiScore(signer, m, o, ai_score) ==
    /\ RecordAiScoreErr(signer, m, o, ai_score) = "Ok"
    /\ opinion' = [opinion EXCEPT ![m][o].ai_score = ai_score]
    /\ UNCHANGED <<now, market, reaction, escrow, treasury, wallet,
                   recoveries, payouts>>

\* ---- settle_opinion (oracle) ----
SettleOpinionErr(signer, m, o, crowd_score, weight_score, consensus_score) ==
    IF ~MarketExists(m) THEN "AccountNotInitialized"
    ELSE IF ~OpinionExists(m, o) THEN "AccountNotInitialized"
    ELSE IF ~(signer = Oracle) THEN "Unauthorized"
    ELSE IF ~(crowd_score <= 100) THEN "InvalidScore"
    ELSE IF ~(weight_score <= 100) THEN "InvalidScore"
    ELSE IF ~(consensus_score <= 100) THEN "InvalidScore"
    ELSE IF ~(market[m].state = "Scored") THEN "MarketNotScored"
    ELSE "Ok"

\* combined_bps / 100, stored as u8
\* mutant: combined_bps is rounded to the nearest point instead of truncated
CombinedScore_Rounded(weight_score, consensus_score, ai_score) ==
    (checked_add(checked_add(weight_score * WEIGHT_MULTIPLIER,
                             consensus_score * CONSENSUS_MULTIPLIER),
                 ai_score * AI_MULTIPLIER) + 50) \div 100

CombinedScore(weight_score, consensus_score, ai_score) ==
    checked_add(checked_add(weight_score * WEIGHT_MULTIPLIER,
                            consensus_score * CONSENSUS_MULTIPLIER),
                ai_score * AI_MULTIPLIER) \div 100

SettledOpinion(op, weight_score, consensus_score) ==
    [op EXCEPT !.weight_score = weight_score,
               !.consensus_score = consensus_score,
               !.combined_score =
                   CombinedScore(weight_score, consensus_score, op.ai_score) % 256]

SettleOpinion(signer, m, o, crowd_score, weight_score, consensus_score) ==
    /\ SettleOpinionErr(signer, m, o, crowd_score, weight_score, consensus_score) = "Ok"
    /\ market' = [market EXCEPT ![m].crowd_score = crowd_score]
    /\ opinion' = [opinion EXCEPT ![m][o] =
                      SettledOpinion(@, weight_score, consensus_score)]
    /\ UNCHANGED <<now, reaction, escrow, treasury, wallet, recoveries, payouts>>

\* ---- finalize_settlement (oracle) ----
\* mutant: the fee is rounded up instead of truncated
ProtocolFee_RoundedUp(total_stake) ==
    MulDiv(total_stake + 9, PROTOCOL_FEE_BPS, 10000)

ProtocolFee(total_stake) == MulDiv(total_stake, PROTOCOL_FEE_BPS, 10000)

\* mutant: the fee is stored where the remainder belongs
DistributablePool_IsFee(total_stake) == ProtocolFee(total_stake)

\* mutant: the fee is not taken off the pool
DistributablePool_Gross(total_stake) == total_stake

DistributablePool(total_stake) == checked_sub(total_stake, ProtocolFee(total_stake))

\* mutant: the total_stake > 0 check is missing
FinalizeSettlementErr_NoEmptyCheck(signer, m) ==
    IF ~MarketExists(m) THEN "AccountNotInitialized"
    ELSE IF ~(signer = Oracle) THEN "Unauthorized"
    ELSE IF ~(market[m].state = "Scored") THEN "MarketNotScored"
    ELSE IF ~CanTransfer(escrow[m], ProtocolFee(market[m].total_stake))
         THEN "InsufficientFunds"
    ELSE "Ok"

\* mutant: the Scored check is missing
FinalizeSettlementErr_NoStateCheck(signer, m) ==
    IF ~MarketExists(m) THEN "AccountNotInitialized"
    ELSE IF ~(signer = Oracle) THEN "Unauthorized"
    ELSE IF ~(market[m].total_stake > 0) THEN "EmptyPrizePool"
    ELSE IF ~CanTransfer(escrow[m], ProtocolFee(market[m].total_stake))
         THEN "InsufficientFunds"
    ELSE "Ok"

FinalizeSettlementErr(signer, m) ==
    IF ~MarketExists(m) THEN "AccountNotInitialized"
    ELSE IF ~(signer = Oracle) THEN "Unauthorized"
    ELSE IF ~(market[m].state = "Scored") THEN "MarketNotScored"
    ELSE IF ~(market[m].total_stake > 0) THEN "EmptyPrizePool"
    ELSE IF ~CanTransfer(escrow[m], ProtocolFee(market[m].total_stake))
         THEN "InsufficientFunds"
    ELSE "Ok"

FinalizeSettlement(signer, m) ==
    /\ FinalizeSettlementErr(signer, m) = "Ok"
    /\ escrow' = [escrow EXCEPT ![m] = @ - ProtocolFee(market[m].total_stake)]
    /\ treasury' = treasury + ProtocolFee(market[m].total_stake)
    /\ market' = [market EXCEPT ![m] =
                     [@ EXCEPT !.distributable_pool =
                                   DistributablePool(market[m].total_stake),
                               !.state = "Settled"]]
    /\ UNCHANGED <<now, opinion, reaction, wallet, recoveries, payouts>>

\* ---- claim_payout ----
\* mutant: the quotient is rounded up
Payout_RoundedUp(combined_score, distributable_pool, total_combined_score) ==
    LET q == MulDiv(distributable_pool, combined_score, total_combined_score)
    IN IF q * total_combined_score = distributable_pool * combined_score
       THEN q ELSE q + 1

Payout(combined_score, distributable_pool, total_combined_score) ==
    MulDiv(distributable_pool, combined_score, total_combined_score)

\* mutant: the Settled check is missing
ClaimPayoutErr_NoStateCheck(signer, m, o, total_combined_score) ==
    IF ~MarketExists(m) THEN "AccountNotInitialized"
    ELSE IF ~OpinionExists(m, o) THEN "AccountNotInitialized"
    ELSE IF ~(o = signer) THEN "Unauthorized"
    ELSE IF ~(~opinion[m][o].paid) THEN "AlreadyPaid"
    ELSE IF ~(total_combined_score > 0) THEN "ZeroTotalScore"
    ELSE IF ~CanTransfer(escrow[m],
                         Payout(opinion[m][o].combined_score,
                                market[m].distributable_pool,
                                total_combined_score))
         THEN "InsufficientFunds"
    ELSE "Ok"

ClaimPayoutErr(signer, m, o, total_combined_score) ==
    IF ~MarketExists(m) THEN "AccountNotInitialized"
    ELSE IF ~OpinionExists(m, o) THEN "AccountNotInitialized"
    ELSE IF ~(o = signer) THEN "Unauthorized"
    ELSE IF ~(market[m].state = "Settled") THEN "MarketNotAwaitingSettlement"
    ELSE IF ~(~opinion[m][o].paid) THEN "AlreadyPaid"
    ELSE IF ~(total_combined_score > 0) THEN "ZeroTotalScore"
    ELSE IF ~CanTransfer(escrow[m],
                         Payout(opinion[m][o].combined_score,
                                market[m].distributable_pool,
                                total_combined_score))
         THEN "InsufficientFunds"
    ELSE "Ok"

\* mutant: the payout is recorded but the latch is not set
ClaimedOpinion_NoLatch(op, payout) == [op EXCEPT !.payout_amount = payout]

ClaimedOpinion(op, payout) == [op EXCEPT !.payout_amount = payout, !.paid = TRUE]

ClaimWinner(mk, staker) ==
    IF mk.winner = None THEN [mk EXCEPT !.winner = staker] ELSE mk

ClaimPayout(signer, m, o, total_combined_score) ==
    /\ ClaimPayoutErr(signer, m, o, total_combined_score) = "Ok"
    /\ LET payout == Payout(opinion[m][o].combined_score,
                            market[m].distributable_pool,
                            total_combined_score)
       IN /\ escrow' = [escrow EXCEPT ![m] = @ - payout]
          /\ wallet' = [wallet EXCEPT ![signer] = @ + payout]
          /\ opinion' = [opinion EXCEPT ![m][o] = ClaimedOpinion(@, payout)]
    /\ market' = [market EXCEPT ![m] = ClaimWinner(@, o)]
    /\ payouts' = [payouts EXCEPT ![m][o] = @ + 1]
    /\ UNCHANGED <<now, reaction, treasury, recoveries>>

\* ---- run_lottery (oracle, legacy) ----
\* mutant: the Scored check is missing
RunLotteryErr_NoStateCheck(signer, m, winner_pubkey, account_owner) ==
    IF ~MarketExists(m) THEN "AccountNotInitialized"
    ELSE IF ~(signer = Oracle) THEN "Unauthorized"
    ELSE IF ~(account_owner = winner_pubkey) THEN "Unauthorized"
    ELSE IF ~(market[m].total_stake > 0) THEN "EmptyPrizePool"
    ELSE IF ~CanTransfer(escrow[m], market[m].total_stake) THEN "InsufficientFunds"
    ELSE "Ok"

RunLotteryErr(signer, m, winner_pubkey, account_owner) ==
    IF ~MarketExists(m) THEN "AccountNotInitialized"
    ELSE IF ~(signer = Oracle) THEN "Unauthorized"
    ELSE IF ~(account_owner = winner_pubkey) THEN "Unauthorized"
    ELSE IF ~(market[m].state = "Scored") THEN "MarketNotScored"
    ELSE IF ~(market[m].total_stake > 0) THEN "EmptyPrizePool"
    ELSE IF ~CanTransfer(escrow[m], market[m].total_stake) THEN "InsufficientFunds"
    ELSE "Ok"

RunLottery(signer, m, winner_pubkey, account_owner) ==
    /\ RunLotteryErr(signer, m, winner_pubkey, account_owner) = "Ok"
    /\ LET protocol_fee == ProtocolFee(market[m].total_stake)
           prize_pool == checked_sub(market[m].total_stake, protocol_fee)
       IN /\ escrow' = [escrow EXCEPT ![m] = (@ - protocol_fee) - prize_pool]
          /\ treasury' = treasury + protocol_fee
          /\ wallet' = [wallet EXCEPT ![account_owner] = @ + prize_pool]
    /\ market' = [market EXCEPT ![m] =
                     [@ EXCEPT !.winner = winner_pubkey, !.state = "Settled"]]
    /\ UNCHANGED <<now, opinion, reaction, recoveries, payouts>>

\* ---- recover_stake ----
RecoverStakeErr(staker, m) ==
    IF ~MarketExists(m) THEN "AccountNotInitialized"
    ELSE IF ~OpinionExists(m, staker) THEN "AccountNotInitialized"
    ELSE IF ~(now >= market[m].closes_at + RECOVERY_PERIOD) THEN "MarketNotExpired"
    ELSE IF ~(market[m].state # "Settled") THEN "MarketNotActive"
    ELSE IF ~CanTransfer(escrow[m], opinion[m][staker].stake_amount)
         THEN "InsufficientFunds"
    ELSE "Ok"

RecoverStake(staker, m) ==
    /\ RecoverStakeErr(staker, m) = "Ok"
    /\ recoveries[m][staker] < MaxRecoveries
    /\ escrow' = [escrow EXCEPT ![m] = @ - opinion[m][staker].stake_amount]
    /\ wallet' = [wallet EXCEPT ![staker] = @ + opinion[m][staker].stake_amount]
    /\ recoveries' = [recoveries EXCEPT ![m][staker] = @ + 1]
    /\ UNCHANGED <<now, market, opinion, reaction, treasury, payouts>>

Next ==
    \/ \E t \in ClockInstants : AdvanceClock(t)
    \/ \E c \in Creators, m \in Uuids, len \in StatementLens, d \in DurationInputs :
          CreateMarket(c, m, len, d)
    \/ \E u \in Users, m \in Uuids, a \in StakeInputs, cl \in CidLens,
          p \in PredictionInputs :
          StakeOpinion(u, m, a, cl, p)
    \/ \E r \in Users, m \in Uuids, o \in Users, k \in ReactionTypes,
          a \in ReactStakeInputs :
          ReactToOpinion(r, m, o, k, a)
    \/ \E m \in Uuids : CloseMarket(m)
    \/ \E s \in Signers, m \in Uuids, sc \in SentimentInputs,
          cf \in ConfidenceInputs :
          RecordSentiment(s, m, sc, cf)
    \/ \E s \in Signers, m \in Uuids, o \in Users, a \in AiScoreInputs :
          RecordAiScore(s, m, o, a)
    \/ \E s \in Signers, m \in Uuids, o \in Users, cr \in CrowdInputs,
          w \in WeightInputs, c \in ConsensusInputs :
          SettleOpinion(s, m, o, cr, w, c)
    \/ \E s \in Signers, m \in Uuids : FinalizeSettlement(s, m)
    \/ \E s \in Users, m \in Uuids, o \in Users, t \in TotalScoreInputs :
          ClaimPayout(s, m, o, t)
    \/ \E s \in Signers, m \in Uuids, w \in Users, ao \in Users :
          RunLottery(s, m, w, ao)
    \/ \E u \in Users, m \in Uuids : RecoverStake(u, m)

\* ---- the program with callers that keep calling ----
\* the clock keeps advancing, somebody keeps calling close_market, and the
\* oracle keeps calling record_sentiment and finalize_settlement with valid
\* arguments, each whenever the call would succeed
OracleRecordsSentiment ==
    \E m \in Uuids, sc \in SentimentInputs, cf \in ConfidenceInputs :
        RecordSentiment(Oracle, m, sc, cf)

OracleFinalizes == \E m \in Uuids : FinalizeSettlement(Oracle, m)

Fairness ==
    /\ WF_vars(\E t \in ClockInstants : AdvanceClock(t))
    /\ WF_vars(\E m \in Uuids : CloseMarket(m))
    /\ WF_vars(OracleRecordsSentiment)
    /\ WF_vars(OracleFinalizes)

\* the last instant at which the clock is observed
LastInstant == DURATION_24H + RECOVERY_PERIOD

\* Next, with a market created only while the observed instants still reach
\* its closes_at + RECOVERY_PERIOD, so that the end of the observation never
\* stands for a clock that has stopped before the market can be closed
NextLive ==
    \/ \E t \in ClockInstants : AdvanceClock(t)
    \/ \E c \in Creators, m \in Uuids, len \in StatementLens, d \in DurationInputs :
          /\ now + d + RECOVERY_PERIOD <= LastInstant
          /\ CreateMarket(c, m, len, d)
    \/ \E u \in Users, m \in Uuids, a \in StakeInputs, cl \in CidLens,
          p \in PredictionInputs :
          StakeOpinion(u, m, a, cl, p)
    \/ \E r \in Users, m \in Uuids, o \in Users, k \in ReactionTypes,
          a \in ReactStakeInputs :
          ReactToOpinion(r, m, o, k, a)
    \/ \E m \in Uuids : CloseMarket(m)
    \/ \E s \in Signers, m \in Uuids, sc \in SentimentInputs,
          cf \in ConfidenceInputs :
          RecordSentiment(s, m, sc, cf)
    \/ \E s \in Signers, m \in Uuids, o \in Users, a \in AiScoreInputs :
          RecordAiScore(s, m, o, a)
    \/ \E s \in Signers, m \in Uuids, o \in Users, cr \in CrowdInputs,
          w \in WeightInputs, c \in ConsensusInputs :
          SettleOpinion(s, m, o, cr, w, c)
    \/ \E s \in Signers, m \in Uuids : FinalizeSettlement(s, m)
    \/ \E s \in Users, m \in Uuids, o \in Users, t \in TotalScoreInputs :
          ClaimPayout(s, m, o, t)
    \/ \E s \in Signers, m \in Uuids, w \in Users, ao \in Users :
          RunLottery(s, m, w, ao)
    \/ \E u \in Users, m \in Uuids : RecoverStake(u, m)

SpecLive == Init /\ [][NextLive]_vars /\ Fairness

\* ---- the scoring phase on its own, over a wider range of scores ----
\* scores the oracle passes: the ends and the inside of 0..100, and 101
ScoreSamples == {0, 33, 50, 80, 90, 100, 101}

\* the state after create_market (alice, 24h, at 0), stake_opinion (alice,
\* MIN_STAKE), the clock reaching closes_at, close_market and record_sentiment
InitScore ==
    /\ now = DURATION_24H
    /\ market = [m \in Uuids |->
                    [creator |-> "alice", created_at |-> 0,
                     closes_at |-> DURATION_24H, state |-> "Scored",
                     staker_count |-> 1, total_stake |-> MIN_STAKE,
                     distributable_pool |-> 0, crowd_score |-> 0,
                     sentiment_score |-> 70, confidence |-> 1,
                     winner |-> None]]
    /\ opinion = [m \in Uuids |->
                     [u \in Users |->
                         IF u = "alice" THEN NewOpinion(MIN_STAKE, 50)
                         ELSE NoAccount]]
    /\ reaction = [m \in Uuids |-> [o \in Users |-> [r \in Users |-> NoAccount]]]
    /\ escrow = [m \in Uuids |-> MIN_STAKE]
    /\ treasury = CREATE_FEE
    /\ wallet = [u \in Users |->
                    IF u = "alice" THEN StartBalance - CREATE_FEE - MIN_STAKE
                    ELSE StartBalance]
    /\ recoveries = [m \in Uuids |-> [u \in Users |-> 0]]
    /\ payouts = [m \in Uuids |-> [u \in Users |-> 0]]

NextScore ==
    \/ \E s \in Signers, m \in Uuids, o \in Users, a \in ScoreSamples :
          RecordAiScore(s, m, o, a)
    \/ \E s \in Signers, m \in Uuids, o \in Users, cr \in CrowdInputs,
          w \in ScoreSamples, c \in ScoreSamples :
          SettleOpinion(s, m, o, cr, w, c)

SpecScore == InitScore /\ [][NextScore]_vars

\* ---- market creation on its own, over every duration and either creator ----
\* duration_secs passed to create_market: the four accepted values and one
\* that is not accepted
CreateDurations ==
    {DURATION_24H, DURATION_3D, DURATION_7D, DURATION_14D, 3600}

NextCreate ==
    \/ \E t \in ClockInstants : AdvanceClock(t)
    \/ \E c \in Users, m \in Uuids, len \in StatementLens, d \in CreateDurations :
          CreateMarket(c, m, len, d)
    \/ \E m \in Uuids : CloseMarket(m)

SpecCreate == Init /\ [][NextCreate]_vars

Spec == Init /\ [][Next]_vars

\* ---- properties ----
RECURSIVE Sum(_, _)
Sum(f, S) ==
    IF S = {} THEN 0
    ELSE LET x == CHOOSE y \in S : TRUE IN f[x] + Sum(f, S \ {x})

\* sum of stake_amount over the Opinion accounts of market m
OpinionStakes(m) ==
    Sum([u \in Users |->
            IF OpinionExists(m, u) THEN opinion[m][u].stake_amount ELSE 0], Users)

\* sum of stake_amount over the Reaction accounts on the opinions of market m
ReactionStakes(m) ==
    Sum([p \in Users \X Users |->
            IF ReactionExists(m, p[1], p[2])
            THEN reaction[m][p[1]][p[2]].stake_amount ELSE 0], Users \X Users)

\* sum of payout_amount over the Opinion accounts of market m
PayoutAmounts(m) ==
    Sum([u \in Users |->
            IF OpinionExists(m, u) THEN opinion[m][u].payout_amount ELSE 0], Users)

NotFinalized(m) == MarketExists(m) /\ market[m].state # "Settled"

RecoveryDeadline(m) == market[m].closes_at + RECOVERY_PERIOD

\* C1: before finalization the escrow balance of every market equals its
\* total_stake, whatever calls (recover_stake included) have run.
C1_EscrowEqualsTotalStake ==
    \A m \in Uuids : NotFinalized(m) => escrow[m] = market[m].total_stake

\* C2: before finalization total_stake of every market equals the sum of
\* stake_amount over its Opinion accounts plus the sum of stake_amount over
\* the Reaction accounts on those opinions.
C2_TotalStakeIsSumOfStakes ==
    \A m \in Uuids :
        NotFinalized(m) =>
            market[m].total_stake = OpinionStakes(m) + ReactionStakes(m)

\* C2 witness: an unsettled market holding an opinion and a reaction on it,
\* from which a stake has already been recovered.
C2_Witness ==
    \E m \in Uuids, o \in Users, r \in Users :
        /\ NotFinalized(m)
        /\ OpinionExists(m, o)
        /\ ReactionExists(m, o, r)
        /\ recoveries[m][o] > 0

\* C3: the escrow makes at most one outbound transfer to an opinion's staker:
\* at most one successful recover_stake, at most one successful claim_payout,
\* and never both.
C3_AtMostOneOutboundTransfer ==
    \A m \in Uuids, u \in Users :
        /\ recoveries[m][u] <= 1
        /\ payouts[m][u] <= 1
        /\ recoveries[m][u] + payouts[m][u] <= 1

\* C4: the sum of payout_amount over a market's opinions never exceeds the
\* market's distributable_pool, whatever total_combined_score the claimants
\* passed.
C4_PayoutsWithinPool ==
    \A m \in Uuids :
        MarketExists(m) => PayoutAmounts(m) <= market[m].distributable_pool

\* C4 witness: one opinion has been paid a non-zero amount and a claim by
\* another opinion with an understated total is refused by the escrow.
C4_Witness ==
    \E m \in Uuids, u \in Users, v \in Users, t \in TotalScoreInputs :
        /\ u # v
        /\ OpinionExists(m, u) /\ OpinionExists(m, v)
        /\ opinion[m][u].paid /\ opinion[m][u].payout_amount > 0
        /\ ~opinion[m][v].paid
        /\ ClaimPayoutErr(v, m, v, t) = "InsufficientFunds"

\* C5 (state part): once claim_payout has succeeded on an opinion, paid is
\* set, a claim by its staker returns AlreadyPaid and no signer's claim is
\* accepted.
C5_PaidRefusesClaim ==
    \A m \in Uuids, o \in Users :
        payouts[m][o] >= 1 =>
            /\ opinion[m][o].paid
            /\ \A t \in TotalScoreInputs :
                  /\ ClaimPayoutErr(o, m, o, t) = "AlreadyPaid"
                  /\ \A s \in Users : ClaimPayoutErr(s, m, o, t) # "Ok"

\* C5 (step part): no step resets paid, changes payout_amount of a paid
\* opinion or pays it again.
C5_PaidStaysPaid ==
    \A m \in Uuids, o \in Users :
        (OpinionExists(m, o) /\ opinion[m][o].paid) =>
            /\ opinion'[m][o].paid
            /\ opinion'[m][o].payout_amount = opinion[m][o].payout_amount
            /\ payouts'[m][o] = payouts[m][o]

\* C5: Opinion.paid is a one-way latch: after a successful claim_payout
\* nothing resets it, and every later claim_payout on the opinion fails
\* (AlreadyPaid for its staker), transfers nothing and leaves payout_amount
\* unchanged.
C5_PaidIsLatch == [](C5_PaidRefusesClaim) /\ [][C5_PaidStaysPaid]_vars

\* C5 witness: a paid opinion with a non-zero payout in a settled market
\* whose escrow still holds funds.
C5_Witness ==
    \E m \in Uuids, o \in Users :
        /\ OpinionExists(m, o)
        /\ opinion[m][o].paid
        /\ opinion[m][o].payout_amount > 0
        /\ escrow[m] > 0

\* C6 (step part): what a finalize_settlement step does to the treasury, the
\* escrow and distributable_pool; fee is the unique integer with
\* 10 * fee <= T < 10 * (fee + 1), i.e. floor(T * 1000 / 10000).
C6_FinalizeStep ==
    \A s \in Signers, m \in Uuids :
        FinalizeSettlement(s, m) =>
            LET T == market[m].total_stake
                fee == treasury' - treasury
            IN /\ T > 0
               /\ 10 * fee <= T /\ T < 10 * (fee + 1)
               /\ escrow[m] - escrow'[m] = fee
               /\ market'[m].distributable_pool = T - fee
               /\ fee + market'[m].distributable_pool = T

\* C6: a successful finalize_settlement on total_stake = T > 0 moves
\* protocol_fee = floor(T * 1000 / 10000) from the escrow to the treasury and
\* sets distributable_pool = T - protocol_fee, so the two add up to T exactly.
C6_FeeSplit == [][C6_FinalizeStep]_vars

\* C6 witness: a market finalized on a total that 10 does not divide.
C6_Witness ==
    \E m \in Uuids :
        /\ MarketExists(m)
        /\ market[m].state = "Settled"
        /\ market[m].distributable_pool > 0
        /\ market[m].total_stake % 10 # 0

\* C7 (state part): on a Settled market finalize_settlement is refused for
\* every signer, with MarketNotScored for the oracle.
C7_SettledRefusesFinalize ==
    \A m \in Uuids :
        (MarketExists(m) /\ market[m].state = "Settled") =>
            /\ FinalizeSettlementErr(Oracle, m) = "MarketNotScored"
            /\ \A s \in Signers : FinalizeSettlementErr(s, m) # "Ok"

\* C7 (step part): a finalize_settlement step starts in Scored and ends in
\* Settled; from Settled no step changes distributable_pool, the state or
\* the treasury's receipt from this escrow.
C7_FinalizeOnceStep ==
    \A m \in Uuids :
        /\ \A s \in Signers :
              FinalizeSettlement(s, m) =>
                  market[m].state = "Scored" /\ market'[m].state = "Settled"
        /\ (MarketExists(m) /\ market[m].state = "Settled") =>
              /\ market'[m].state = "Settled"
              /\ market'[m].distributable_pool = market[m].distributable_pool
              /\ \A s \in Signers : ~FinalizeSettlement(s, m)

\* C7: finalize_settlement succeeds at most once per market: once the market
\* is Settled every further call fails (MarketNotScored), no fee moves and
\* distributable_pool stays.
C7_FinalizeOnce == [](C7_SettledRefusesFinalize) /\ [][C7_FinalizeOnceStep]_vars

\* C7 witness: a market settled by finalize_settlement whose escrow could
\* still cover a second fee.
C7_Witness ==
    \E m \in Uuids :
        /\ MarketExists(m)
        /\ market[m].state = "Settled"
        /\ market[m].distributable_pool > 0
        /\ escrow[m] >= ProtocolFee(market[m].total_stake)

\* C8 (state part): close_market is accepted only in Active, record_sentiment
\* only in Closed, finalize_settlement and run_lottery only in Scored.
C8_AcceptedOnlyInState ==
    \A m \in Uuids :
        /\ CloseMarketErr(m) = "Ok" => market[m].state = "Active"
        /\ \A s \in Signers, sc \in SentimentInputs, cf \in ConfidenceInputs :
              RecordSentimentErr(s, m, sc, cf) = "Ok" => market[m].state = "Closed"
        /\ \A s \in Signers :
              FinalizeSettlementErr(s, m) = "Ok" => market[m].state = "Scored"
        /\ \A s \in Signers, w \in Users, ao \in Users :
              RunLotteryErr(s, m, w, ao) = "Ok" => market[m].state = "Scored"

\* C8 (step part): a step leaves the state of a market alone or moves it one
\* place forward, by the instruction that owns that move; a market account
\* stays, and a Settled market stays Settled.
C8_ForwardStep ==
    \A m \in Uuids :
        MarketExists(m) =>
            /\ market'[m] # NoAccount
            /\ \/ market'[m].state = market[m].state
               \/ /\ market[m].state = "Active" /\ market'[m].state = "Closed"
                  /\ CloseMarket(m)
               \/ /\ market[m].state = "Closed" /\ market'[m].state = "Scored"
                  /\ \E s \in Signers, sc \in SentimentInputs, cf \in ConfidenceInputs :
                        RecordSentiment(s, m, sc, cf)
               \/ /\ market[m].state = "Scored" /\ market'[m].state = "Settled"
                  /\ \/ \E s \in Signers : FinalizeSettlement(s, m)
                     \/ \E s \in Signers, w \in Users, ao \in Users :
                           RunLottery(s, m, w, ao)
            /\ market[m].state = "Settled" => market'[m].state = "Settled"

\* C8: the state of a market only moves forward along
\* Active -> Closed -> Scored -> Settled, each move made by its own
\* instruction from its own source state, and Settled is final.
C8_StateMovesForward == [](C8_AcceptedOnlyInState) /\ [][C8_ForwardStep]_vars

\* C8 witness: a market that has gone all the way to Settled.
C8_Witness ==
    \E m \in Uuids : MarketExists(m) /\ market[m].state = "Settled"

\* C9: recover_stake by the staker of an opinion returns MarketNotExpired
\* before closes_at + RECOVERY_PERIOD; from that instant on, in a market that
\* is not Settled, it succeeds (stated here for a staker who has not recovered
\* before, the one recovery C3 allows); in a Settled market it fails.
C9_RecoverStakeOutcome ==
    \A m \in Uuids, u \in Users :
        (MarketExists(m) /\ OpinionExists(m, u)) =>
            /\ now < RecoveryDeadline(m) =>
                  RecoverStakeErr(u, m) = "MarketNotExpired"
            /\ (now >= RecoveryDeadline(m) /\ market[m].state # "Settled"
                    /\ recoveries[m][u] = 0) =>
                  RecoverStakeErr(u, m) = "Ok"
            /\ market[m].state = "Settled" => RecoverStakeErr(u, m) # "Ok"

\* arguments of stake_opinion / react_to_opinion that pass the checks made
\* before the market's state is looked at
ValidStake(a) == MIN_STAKE <= a /\ a <= MAX_STAKE

\* C10 (state part): the outcome of stake_opinion, react_to_opinion and
\* close_market as a function of the market's state and the clock.
C10_Outcome ==
    \A m \in Uuids :
        MarketExists(m) =>
            /\ \A u \in Users, a \in StakeInputs, cl \in CidLens, p \in PredictionInputs :
                  /\ StakeOpinionErr(u, m, a, cl, p) = "Ok" =>
                        market[m].state = "Active" /\ now < market[m].closes_at
                  /\ (~OpinionExists(m, u) /\ ValidStake(a)
                          /\ cl <= MAX_IPFS_CID_LEN /\ p <= 100) =>
                        /\ market[m].state # "Active" =>
                              StakeOpinionErr(u, m, a, cl, p) = "MarketNotActive"
                        /\ (market[m].state = "Active" /\ now >= market[m].closes_at) =>
                              StakeOpinionErr(u, m, a, cl, p) = "MarketExpired"
            /\ \A r \in Users, o \in Users, k \in ReactionTypes, a \in ReactStakeInputs :
                  /\ ReactToOpinionErr(r, m, o, k, a) = "Ok" =>
                        market[m].state = "Active" /\ now < market[m].closes_at
                  /\ (OpinionExists(m, o) /\ ~ReactionExists(m, o, r) /\ ValidStake(a)) =>
                        /\ market[m].state # "Active" =>
                              ReactToOpinionErr(r, m, o, k, a) = "MarketNotActive"
                        /\ (market[m].state = "Active" /\ now >= market[m].closes_at) =>
                              ReactToOpinionErr(r, m, o, k, a) = "MarketExpired"
            /\ CloseMarketErr(m) = "Ok" =>
                  market[m].state = "Active" /\ now >= market[m].closes_at
            /\ market[m].state # "Active" => CloseMarketErr(m) = "MarketNotActive"
            /\ (market[m].state = "Active" /\ now < market[m].closes_at) =>
                  CloseMarketErr(m) = "MarketNotExpired"

\* C10 (step part): the clock never goes back, closes_at never changes, and
\* from an instant at which now >= closes_at (where close_market is enabled
\* on an Active market) no step creates an Opinion or a Reaction or adds to
\* total_stake or the escrow.
C10_NoStakeAfterClose ==
    /\ now' >= now
    /\ \A m \in Uuids :
          MarketExists(m) =>
              /\ market'[m].closes_at = market[m].closes_at
              /\ now >= market[m].closes_at =>
                    /\ opinion'[m] = opinion[m] \/
                          \A u \in Users :
                              OpinionExists(m, u) <=> (opinion'[m][u] # NoAccount)
                    /\ reaction'[m] = reaction[m]
                    /\ market'[m].total_stake = market[m].total_stake
                    /\ market'[m].staker_count = market[m].staker_count
                    /\ escrow'[m] <= escrow[m]

\* C10: stake_opinion and react_to_opinion succeed only in an Active market
\* with now < closes_at (MarketNotActive / MarketExpired otherwise),
\* close_market only in an Active market with now >= closes_at
\* (MarketNotActive / MarketNotExpired otherwise); so, the clock being
\* monotonic, no stake or reaction is accepted at or after an instant at
\* which close_market is enabled.
C10_StakingEndsWhereCloseBegins == [](C10_Outcome) /\ [][C10_NoStakeAfterClose]_vars

\* C10 witness: a Closed market that took an opinion and a reaction while it
\* was open.
C10_Witness ==
    \E m \in Uuids, o \in Users, r \in Users :
        /\ MarketExists(m)
        /\ market[m].state = "Closed"
        /\ OpinionExists(m, o)
        /\ ReactionExists(m, o, r)

\* C11: claim_payout succeeds only on a Settled market.  While the market is
\* Active, Closed or Scored no signer's claim is accepted, the staker's own
\* claim returns MarketNotAwaitingSettlement, and nothing has been paid out:
\* no claim has succeeded and every opinion is unpaid with payout_amount 0.
C11_ClaimOnlyWhenSettled ==
    \A m \in Uuids, o \in Users :
        (MarketExists(m) /\ OpinionExists(m, o)) =>
            /\ (payouts[m][o] >= 1 => market[m].state = "Settled")
            /\ market[m].state \in {"Active", "Closed", "Scored"} =>
                  /\ \A s \in Users, t \in TotalScoreInputs :
                        ClaimPayoutErr(s, m, o, t) # "Ok"
                  /\ \A t \in TotalScoreInputs :
                        ClaimPayoutErr(o, m, o, t) = "MarketNotAwaitingSettlement"
                  /\ ~opinion[m][o].paid
                  /\ opinion[m][o].payout_amount = 0

\* C11 witness: a Scored market whose opinion already carries a non-zero
\* combined_score, and the staker's claim is refused.
C11_Witness ==
    \E m \in Uuids, o \in Users :
        /\ MarketExists(m) /\ OpinionExists(m, o)
        /\ market[m].state = "Scored"
        /\ opinion[m][o].combined_score > 0
        /\ ClaimPayoutErr(o, m, o, 77) = "MarketNotAwaitingSettlement"

\* C12: record_sentiment, record_ai_score, settle_opinion, finalize_settlement
\* and run_lottery are accepted only from the configured oracle_authority;
\* called on existing accounts by any other signer, each returns Unauthorized
\* whatever its arguments and whatever the market's state.
C12_OracleOnly ==
    \A s \in Signers, m \in Uuids :
        MarketExists(m) =>
            /\ \A sc \in SentimentInputs, cf \in ConfidenceInputs :
                  /\ RecordSentimentErr(s, m, sc, cf) = "Ok" => s = Oracle
                  /\ s # Oracle => RecordSentimentErr(s, m, sc, cf) = "Unauthorized"
            /\ FinalizeSettlementErr(s, m) = "Ok" => s = Oracle
            /\ s # Oracle => FinalizeSettlementErr(s, m) = "Unauthorized"
            /\ \A w \in Users, ao \in Users :
                  /\ RunLotteryErr(s, m, w, ao) = "Ok" => s = Oracle
                  /\ s # Oracle => RunLotteryErr(s, m, w, ao) = "Unauthorized"
            /\ \A o \in Users :
                  OpinionExists(m, o) =>
                      /\ \A a \in AiScoreInputs :
                            /\ RecordAiScoreErr(s, m, o, a) = "Ok" => s = Oracle
                            /\ s # Oracle =>
                                  RecordAiScoreErr(s, m, o, a) = "Unauthorized"
                      /\ \A cr \in CrowdInputs, w \in WeightInputs,
                            c \in ConsensusInputs :
                            /\ SettleOpinionErr(s, m, o, cr, w, c) = "Ok" => s = Oracle
                            /\ s # Oracle =>
                                  SettleOpinionErr(s, m, o, cr, w, c) = "Unauthorized"

\* C12 witness: a market the oracle has moved to Scored, with an opinion on
\* which the oracle's settle_opinion and finalize_settlement would be accepted
\* and the same calls signed by a user are refused.
C12_Witness ==
    \E m \in Uuids, o \in Users, u \in Users :
        /\ MarketExists(m) /\ OpinionExists(m, o)
        /\ market[m].state = "Scored"
        /\ market[m].sentiment_score = 70
        /\ SettleOpinionErr(Oracle, m, o, 60, 80, 90) = "Ok"
        /\ SettleOpinionErr(u, m, o, 60, 80, 90) = "Unauthorized"
        /\ FinalizeSettlementErr(Oracle, m) = "Ok"
        /\ FinalizeSettlementErr(u, m) = "Unauthorized"

\* C13 (state part): on a Scored market the oracle's settle_opinion is
\* accepted when crowd_score, weight_score and consensus_score are all at most
\* 100 and returns InvalidScore when any of them exceeds 100; weight 80,
\* consensus 90 and ai 50 combine to 77.
C13_ScoreChecks ==
    /\ CombinedScore(80, 90, 50) = 77
    /\ \A m \in Uuids, o \in Users :
          (MarketExists(m) /\ OpinionExists(m, o) /\ market[m].state = "Scored") =>
              \A cr \in CrowdInputs \cup ScoreSamples, w \in ScoreSamples,
                 c \in ScoreSamples :
                  SettleOpinionErr(Oracle, m, o, cr, w, c) =
                      IF cr > 100 \/ w > 100 \/ c > 100 THEN "InvalidScore" ELSE "Ok"

\* C13 (step part): a successful settle_opinion stores the weight and
\* consensus it was given and a combined_score k in 0..100 with
\* 100*k <= weight*50 + consensus*30 + ai_score*20 < 100*(k+1), ai_score being
\* the opinion's recorded AI score.
C13_SettleStep ==
    \A s \in Signers, m \in Uuids, o \in Users, cr \in CrowdInputs,
       w \in ScoreSamples, c \in ScoreSamples :
        SettleOpinion(s, m, o, cr, w, c) =>
            LET k == opinion'[m][o].combined_score
                bps == w * 50 + c * 30 + opinion[m][o].ai_score * 20
            IN /\ opinion'[m][o].weight_score = w
               /\ opinion'[m][o].consensus_score = c
               /\ w <= 100 /\ c <= 100 /\ opinion[m][o].ai_score <= 100
               /\ k \in 0..100
               /\ 100 * k <= bps
               /\ bps < 100 * (k + 1)

\* C13: settle_opinion stores combined_score =
\* floor((weight*50 + consensus*30 + ai*20) / 100), within 0..100, for scores
\* in 0..100, and refuses a crowd, weight or consensus score above 100 with
\* InvalidScore.
C13_CombinedScore == [](C13_ScoreChecks) /\ [][C13_SettleStep]_vars

\* C13 witness: an opinion settled with weight 80, consensus 90 and AI score
\* 50 holds combined_score 77.
C13_Witness ==
    \E m \in Uuids, o \in Users :
        /\ OpinionExists(m, o)
        /\ opinion[m][o].weight_score = 80
        /\ opinion[m][o].consensus_score = 90
        /\ opinion[m][o].ai_score = 50
        /\ opinion[m][o].combined_score = 77

\* p = floor(combined_score * distributable_pool / total_combined_score)
IsFloorShare(p, combined_score, distributable_pool, total_combined_score) ==
    /\ total_combined_score > 0
    /\ p * total_combined_score <= combined_score * distributable_pool
    /\ combined_score * distributable_pool < (p + 1) * total_combined_score

\* C14 (state part): a claim with total_combined_score = 0 is never accepted
\* and, made by the staker of an unpaid opinion on a Settled market, returns
\* ZeroTotalScore; the payout_amount recorded on a paid opinion is the floor
\* share for one of the totals a claimant can pass.
C14_ZeroTotalAndRecord ==
    \A m \in Uuids, o \in Users :
        (MarketExists(m) /\ OpinionExists(m, o)) =>
            /\ \A s \in Users : ClaimPayoutErr(s, m, o, 0) # "Ok"
            /\ (market[m].state = "Settled" /\ ~opinion[m][o].paid) =>
                  ClaimPayoutErr(o, m, o, 0) = "ZeroTotalScore"
            /\ opinion[m][o].paid =>
                  \E t \in TotalScoreInputs :
                      IsFloorShare(opinion[m][o].payout_amount,
                                   opinion[m][o].combined_score,
                                   market[m].distributable_pool, t)

\* C14 (step part): a successful claim_payout(total_combined_score) records
\* payout_amount = floor(combined_score * distributable_pool /
\* total_combined_score) and moves exactly that amount from the escrow to the
\* staker.
C14_ClaimStep ==
    \A s \in Users, m \in Uuids, o \in Users, t \in TotalScoreInputs :
        ClaimPayout(s, m, o, t) =>
            LET p == opinion'[m][o].payout_amount
            IN /\ IsFloorShare(p, opinion[m][o].combined_score,
                               market[m].distributable_pool, t)
               /\ escrow'[m] = escrow[m] - p
               /\ wallet'[s] = wallet[s] + p
               /\ s = o
               /\ treasury' = treasury

\* C14: claim_payout pays and records floor(combined_score *
\* distributable_pool / total_combined_score); with total_combined_score = 0
\* it fails with ZeroTotalScore and transfers nothing.
C14_PayoutFormula == [](C14_ZeroTotalAndRecord) /\ [][C14_ClaimStep]_vars

\* C14 witness: an opinion paid a non-zero amount that is strictly below the
\* exact quotient, so the floor has cut a remainder off.
C14_Witness ==
    \E m \in Uuids, o \in Users, t \in TotalScoreInputs :
        /\ OpinionExists(m, o)
        /\ opinion[m][o].paid
        /\ opinion[m][o].payout_amount > 0
        /\ IsFloorShare(opinion[m][o].payout_amount, opinion[m][o].combined_score,
                        market[m].distributable_pool, t)
        /\ opinion[m][o].payout_amount * t
              < opinion[m][o].combined_score * market[m].distributable_pool

\* C15 as stated: distributable_pool is 0 while a market is not Settled and
\* equals total_stake - floor(total_stake / 10) in every Settled market,
\* whichever instruction settled it.
C15_PoolFollowsState ==
    \A m \in Uuids :
        MarketExists(m) =>
            market[m].distributable_pool =
                IF market[m].state = "Settled"
                THEN market[m].total_stake - (market[m].total_stake \div 10)
                ELSE 0

\* C15 amended (state part): distributable_pool is 0 while a market is not
\* Settled, and in a Settled market it is either total_stake -
\* floor(total_stake / 10) or still 0.
C15_PoolValues ==
    \A m \in Uuids :
        MarketExists(m) =>
            IF market[m].state = "Settled"
            THEN market[m].distributable_pool \in
                     {0, market[m].total_stake - (market[m].total_stake \div 10)}
            ELSE market[m].distributable_pool = 0

\* C15 amended (step part): finalize_settlement stores total_stake -
\* floor(total_stake / 10), run_lottery settles the market and leaves the
\* pool at 0, and nothing changes the pool or total_stake of a Settled market.
C15_PoolStep ==
    /\ \A s \in Signers, m \in Uuids :
          FinalizeSettlement(s, m) =>
              /\ market'[m].state = "Settled"
              /\ market'[m].total_stake = market[m].total_stake
              /\ market'[m].distributable_pool =
                     market[m].total_stake - (market[m].total_stake \div 10)
    /\ \A s \in Signers, m \in Uuids, w \in Users, ao \in Users :
          RunLottery(s, m, w, ao) =>
              /\ market'[m].state = "Settled"
              /\ market'[m].distributable_pool = 0
    /\ \A m \in Uuids :
          (MarketExists(m) /\ market[m].state = "Settled") =>
              /\ market'[m].distributable_pool = market[m].distributable_pool
              /\ market'[m].total_stake = market[m].total_stake

\* C15 amended: distributable_pool is 0 while the market is not Settled; a
\* market settled by finalize_settlement holds total_stake -
\* floor(total_stake / 10) from then on, and a market settled by run_lottery
\* keeps distributable_pool = 0.
C15_PoolSetByFinalizeOnly == [](C15_PoolValues) /\ [][C15_PoolStep]_vars

\* C15 witness: a market with stake in it that run_lottery has settled, its
\* distributable_pool still 0.
C15_Witness ==
    \E m \in Uuids :
        /\ MarketExists(m)
        /\ market[m].state = "Settled"
        /\ market[m].total_stake > 0
        /\ market[m].distributable_pool = 0
        /\ market[m].winner # None
        /\ \A o \in Users : payouts[m][o] = 0

\* settle_opinion has succeeded on the opinion: only settle_opinion writes
\* weight_score and consensus_score, and every weight and consensus the
\* oracle passes in WeightInputs and ConsensusInputs is above 0 when valid
HasBeenSettled(m, o) ==
    /\ OpinionExists(m, o)
    /\ opinion[m][o].weight_score > 0
    /\ opinion[m][o].consensus_score > 0

\* C16: combined_score is written at most once: once settle_opinion has
\* succeeded on an opinion, no later step (a further settle_opinion included)
\* changes its combined_score, weight_score or consensus_score.
C16_SettledOnce ==
    [][\A m \in Uuids, o \in Users :
          HasBeenSettled(m, o) =>
              /\ opinion'[m][o].combined_score = opinion[m][o].combined_score
              /\ opinion'[m][o].weight_score = opinion[m][o].weight_score
              /\ opinion'[m][o].consensus_score = opinion[m][o].consensus_score]_vars

\* the outcome the stake bounds give a call that is valid in everything else
StakeBoundOutcome(a) ==
    IF a < 500000 THEN "StakeTooSmall"
    ELSE IF a > 10000000 THEN "StakeTooLarge"
    ELSE "Ok"

\* C17: stake_opinion and react_to_opinion accept a stake_amount exactly when
\* 500_000 <= stake_amount <= 10_000_000: on an open market, from a caller
\* who holds the amount, 499_999 returns StakeTooSmall, 500_000 and
\* 10_000_000 are accepted and 10_000_001 returns StakeTooLarge; no call with
\* an amount outside the bounds is accepted whatever else it passes, and every
\* stored Opinion.stake_amount and Reaction.stake_amount lies within them.
C17_StakeBounds ==
    \A m \in Uuids :
        (MarketExists(m) /\ market[m].state = "Active" /\ now < market[m].closes_at) =>
            /\ \A u \in Users, a \in {499999, 500000, 10000000, 10000001} :
                  (~OpinionExists(m, u) /\ wallet[u] >= a) =>
                      /\ StakeOpinionErr(u, m, a, MAX_IPFS_CID_LEN, 50)
                             = StakeBoundOutcome(a)
                      /\ \A cl \in CidLens, p \in PredictionInputs :
                            StakeOpinionErr(u, m, a, cl, p) = "Ok" =>
                                StakeBoundOutcome(a) = "Ok"
            /\ \A r \in Users, o \in Users, k \in ReactionTypes,
                  a \in {499999, 500000, 10000000, 10000001} :
                  (OpinionExists(m, o) /\ ~ReactionExists(m, o, r) /\ r # o
                      /\ wallet[r] >= a) =>
                      ReactToOpinionErr(r, m, o, k, a) = StakeBoundOutcome(a)

\* C17 (stored amounts): every Opinion and every Reaction holds a
\* stake_amount within [MIN_STAKE, MAX_STAKE].
C17_StoredStakes ==
    \A m \in Uuids, o \in Users :
        /\ OpinionExists(m, o) => ValidStake(opinion[m][o].stake_amount)
        /\ \A r \in Users :
              ReactionExists(m, o, r) => ValidStake(reaction[m][o][r].stake_amount)

\* C17: the stake bounds decide acceptance as stated, and every stored
\* stake_amount lies in [MIN_STAKE, MAX_STAKE].
C17_StakeBoundsAndStored == C17_StakeBounds /\ C17_StoredStakes

\* C17 witness: a market holding an opinion staked at exactly MIN_STAKE, an
\* opinion staked at exactly MAX_STAKE and a reaction staked at MAX_STAKE.
C17_Witness ==
    \E m \in Uuids, o1 \in Users, o2 \in Users, o \in Users, r \in Users :
        /\ OpinionExists(m, o1) /\ opinion[m][o1].stake_amount = 500000
        /\ OpinionExists(m, o2) /\ opinion[m][o2].stake_amount = 10000000
        /\ ReactionExists(m, o, r) /\ reaction[m][o][r].stake_amount = 10000000

\* sum of stake_amount over the Reaction accounts on opinion o of market m
ReactionStakesOn(m, o) ==
    Sum([r \in Users |->
            IF ReactionExists(m, o, r) THEN reaction[m][o][r].stake_amount ELSE 0],
        Users)

\* C18: a reaction by the opinion's own staker is never accepted and, on an
\* open market with a stake within the bounds, returns
\* CannotReactToOwnOpinion; once a Reaction of reactor r on an opinion exists,
\* every further react_to_opinion by r on that opinion is refused (the
\* Reaction address is in use).  So no Reaction has reactor = staker, and each
\* opinion's backing_total + slashing_total is its own stake plus one
\* stake_amount per reactor: no refused or repeated reaction has added to it.
C18_OneReactionNeverOwn ==
    \A m \in Uuids, o \in Users :
        OpinionExists(m, o) =>
            /\ ~ReactionExists(m, o, o)
            /\ \A k \in ReactionTypes, a \in ReactStakeInputs :
                  /\ ReactToOpinionErr(o, m, o, k, a) # "Ok"
                  /\ (ValidStake(a) /\ market[m].state = "Active"
                          /\ now < market[m].closes_at) =>
                        ReactToOpinionErr(o, m, o, k, a) = "CannotReactToOwnOpinion"
            /\ \A r \in Users, k \in ReactionTypes, a \in ReactStakeInputs :
                  ReactionExists(m, o, r) =>
                      ReactToOpinionErr(r, m, o, k, a) = "AccountInUse"
            /\ opinion[m][o].backing_total + opinion[m][o].slashing_total
                  = opinion[m][o].stake_amount + ReactionStakesOn(m, o)

\* C18 witness: on an open market a reactor has already reacted to an
\* opinion; their second reaction and the staker's own reaction are refused.
C18_Witness ==
    \E m \in Uuids, o \in Users, r \in Users :
        /\ MarketExists(m) /\ market[m].state = "Active"
        /\ now < market[m].closes_at
        /\ ReactionExists(m, o, r)
        /\ ReactToOpinionErr(r, m, o, "Slash", MAX_STAKE) = "AccountInUse"
        /\ ReactToOpinionErr(o, m, o, "Back", MAX_STAKE) = "CannotReactToOwnOpinion"

\* the outcome of create_market(len-character statement, d) for a creator who
\* holds the fee, at an unused market address
CreateOutcome(len, d) ==
    IF len = 0 THEN "StatementEmpty"
    ELSE IF len > 280 THEN "StatementTooLong"
    ELSE IF d \notin {86400, 259200, 604800, 1209600} THEN "InvalidDuration"
    ELSE "Ok"

\* C19 (state part): create_market is accepted for a non-empty statement of at
\* most 280 characters and a duration of 24h, 3d, 7d or 14d, and otherwise
\* returns StatementEmpty, StatementTooLong or InvalidDuration; the treasury
\* holds the fee exactly when the market exists, and an existing market has
\* closes_at = created_at + one of the four durations.
C19_CreateOutcome ==
    \A m \in Uuids :
        IF MarketExists(m)
        THEN /\ treasury = CREATE_FEE
             /\ market[m].closes_at - market[m].created_at
                    \in {86400, 259200, 604800, 1209600}
        ELSE /\ treasury = 0
             /\ \A c \in Users, len \in {0, 1, 280, 281}, d \in CreateDurations :
                   wallet[c] >= CREATE_FEE =>
                       CreateMarketErr(c, m, len, d) = CreateOutcome(len, d)

\* C19 (step part): a successful create_market(statement, d) creates an
\* Active market with created_at = now, closes_at = created_at + d and
\* staker_count, total_stake and distributable_pool 0, and moves CREATE_FEE
\* from the creator to the treasury.
C19_CreateStep ==
    \A c \in Users, m \in Uuids, len \in StatementLens, d \in CreateDurations :
        CreateMarket(c, m, len, d) =>
            /\ CreateOutcome(len, d) = "Ok"
            /\ ~MarketExists(m)
            /\ market'[m].creator = c
            /\ market'[m].state = "Active"
            /\ market'[m].created_at = now
            /\ market'[m].closes_at = market'[m].created_at + d
            /\ market'[m].staker_count = 0
            /\ market'[m].total_stake = 0
            /\ market'[m].distributable_pool = 0
            /\ treasury' = treasury + 5000000
            /\ wallet'[c] = wallet[c] - 5000000

C22_EscrowChangesWithRecord ==
    [][\A m \in Uuids :
          escrow'[m] # escrow[m] =>
              (market'[m] # market[m] \/ opinion'[m] # opinion[m])]_vars

\* C23 (state part): on a Settled market neither run_lottery nor
\* finalize_settlement is accepted from any signer, and the oracle's call
\* returns MarketNotScored; in a market settled with distributable_pool = 0,
\* which is how run_lottery leaves it, no opinion has been paid a non-zero
\* amount.
C23_SettledExcludesBoth ==
    \A m \in Uuids :
        (MarketExists(m) /\ market[m].state = "Settled") =>
            /\ \A s \in Signers : FinalizeSettlementErr(s, m) # "Ok"
            /\ FinalizeSettlementErr(Oracle, m) = "MarketNotScored"
            /\ \A s \in Signers, w \in Users, ao \in Users :
                  RunLotteryErr(s, m, w, ao) # "Ok"
            /\ \A w \in Users : RunLotteryErr(Oracle, m, w, w) = "MarketNotScored"
            /\ market[m].distributable_pool = 0 => PayoutAmounts(m) = 0

\* C23 (step part): a successful run_lottery starts from Scored with
\* total_stake = T > 0, moves floor(T/10) to the treasury and T - floor(T/10)
\* to the winner's account, all of it out of the escrow, and sets Settled;
\* finalize_settlement starts from Scored; a claim_payout on a market whose
\* distributable_pool is 0 moves nothing.
C23_LotteryStep ==
    /\ \A s \in Signers, m \in Uuids, w \in Users, ao \in Users :
          RunLottery(s, m, w, ao) =>
              LET T == market[m].total_stake
              IN /\ market[m].state = "Scored"
                 /\ T > 0
                 /\ ao = w
                 /\ treasury' = treasury + (T \div 10)
                 /\ wallet'[w] = wallet[w] + (T - (T \div 10))
                 /\ escrow'[m] = escrow[m] - T
                 /\ market'[m].state = "Settled"
                 /\ market'[m].winner = w
    /\ \A s \in Signers, m \in Uuids :
          FinalizeSettlement(s, m) => market[m].state = "Scored"
    /\ \A s \in Users, m \in Uuids, o \in Users, t \in TotalScoreInputs :
          (ClaimPayout(s, m, o, t) /\ market[m].distributable_pool = 0) =>
              /\ escrow'[m] = escrow[m]
              /\ wallet' = wallet
              /\ opinion'[m][o].payout_amount = 0

\* C23: run_lottery from Scored with total_stake = T > 0 pays floor(T/10) to
\* the treasury and T - floor(T/10) to the single winner and settles the
\* market; once either run_lottery or finalize_settlement has settled a
\* market the other fails, and after run_lottery no claim_payout transfers a
\* non-zero amount.
C23_LotteryExclusive == [](C23_SettledExcludesBoth) /\ [][C23_LotteryStep]_vars

\* C23 witness: a market settled by run_lottery on which an opinion with a
\* non-zero combined_score has since claimed and received nothing.
C23_Witness ==
    \E m \in Uuids, o \in Users :
        /\ MarketExists(m) /\ OpinionExists(m, o)
        /\ market[m].state = "Settled"
        /\ market[m].distributable_pool = 0
        /\ opinion[m][o].combined_score > 0
        /\ payouts[m][o] >= 1
        /\ opinion[m][o].payout_amount = 0
        /\ FinalizeSettlementErr(Oracle, m) = "MarketNotScored"

\* sum of stake_amount over the reactions of kind k on opinion o of market m
ReactionStakesOfKind(m, o, k) ==
    Sum([r \in Users |->
            IF ReactionExists(m, o, r) /\ reaction[m][o][r].reaction_type = k
            THEN reaction[m][o][r].stake_amount ELSE 0],
        Users)

\* C24: every opinion's backing_total is its own stake_amount plus the sum of
\* its Back reactions' stake_amount, and its slashing_total is the sum of its
\* Slash reactions' stake_amount: each accepted reaction has been added to
\* exactly one of the two.
C24_AccumulatorsMatchReactions ==
    \A m \in Uuids, o \in Users :
        OpinionExists(m, o) =>
            /\ opinion[m][o].backing_total =
                   opinion[m][o].stake_amount + ReactionStakesOfKind(m, o, "Back")
            /\ opinion[m][o].slashing_total = ReactionStakesOfKind(m, o, "Slash")

\* C24 witness: one opinion carries a Back reaction and another a Slash
\* reaction.
C24_Witness ==
    \E m \in Uuids, o1 \in Users, o2 \in Users, r1 \in Users, r2 \in Users :
        /\ ReactionExists(m, o1, r1) /\ reaction[m][o1][r1].reaction_type = "Back"
        /\ ReactionExists(m, o2, r2) /\ reaction[m][o2][r2].reaction_type = "Slash"
        /\ opinion[m][o1].backing_total > opinion[m][o1].stake_amount
        /\ opinion[m][o2].slashing_total > 0

\* the stakers holding an Opinion on market m
Stakers(m) == {u \in Users : OpinionExists(m, u)}

\* C25: a staker holds at most one Opinion per market: once the Opinion
\* exists every further stake_opinion by that staker on that market is
\* refused (the Opinion address is in use) whatever its arguments, and
\* staker_count equals the number of Opinion records of the market;
\* total_stake is the sum of the recorded stakes, so no refused stake has
\* added to it.
C25_OneOpinionPerStaker ==
    \A m \in Uuids :
        MarketExists(m) =>
            /\ market[m].staker_count = Cardinality(Stakers(m))
            /\ \A u \in Stakers(m), a \in StakeInputs, cl \in CidLens,
                  p \in PredictionInputs :
                  StakeOpinionErr(u, m, a, cl, p) = "AccountInUse"
            /\ market[m].total_stake = OpinionStakes(m) + ReactionStakes(m)

\* C25 witness: an open market on which both users hold an Opinion and a
\* second stake by one of them, who still holds the amount, is refused.
C25_Witness ==
    \E m \in Uuids, u \in Users :
        /\ MarketExists(m) /\ market[m].state = "Active"
        /\ now < market[m].closes_at
        /\ market[m].staker_count = 2
        /\ OpinionExists(m, u)
        /\ wallet[u] >= MIN_STAKE
        /\ StakeOpinionErr(u, m, MIN_STAKE, MAX_IPFS_CID_LEN, 50) = "AccountInUse"

\* the step is a successful stake_opinion or react_to_opinion on market m
StakeOrReactStep(m) ==
    \/ \E u \in Users, a \in StakeInputs, cl \in CidLens, p \in PredictionInputs :
          StakeOpinion(u, m, a, cl, p)
    \/ \E r \in Users, o \in Users, k \in ReactionTypes, a \in ReactStakeInputs :
          ReactToOpinion(r, m, o, k, a)

\* C26 (step): what a step may do to closes_at, created_at, total_stake and
\* staker_count of an existing market
C26_FrozenStep ==
    \A m \in Uuids :
        MarketExists(m) =>
            /\ market'[m].closes_at = market[m].closes_at
            /\ market'[m].created_at = market[m].created_at
            /\ market'[m].total_stake >= market[m].total_stake
            /\ (market'[m].total_stake # market[m].total_stake
                   \/ market'[m].staker_count # market[m].staker_count) =>
                  /\ market[m].state = "Active"
                  /\ market'[m].state = "Active"
                  /\ StakeOrReactStep(m)

\* C26: closes_at never changes after create_market and total_stake never
\* decreases; total_stake and staker_count change only in a stake_opinion or
\* react_to_opinion step on an Active market, so both are frozen once the
\* market is Closed.
C26_ClosesAtAndTotalsFrozen == [][C26_FrozenStep]_vars

\* C26 witness: a market past Active with stake in it from which a stake has
\* been recovered: total_stake still stands at the sum of the recorded
\* stakes, above the escrow balance.
C26_Witness ==
    \E m \in Uuids, u \in Users :
        /\ MarketExists(m)
        /\ market[m].state \in {"Closed", "Scored"}
        /\ recoveries[m][u] >= 1
        /\ market[m].total_stake = OpinionStakes(m) + ReactionStakes(m)
        /\ market[m].total_stake > escrow[m]
        /\ market[m].closes_at = market[m].created_at + DURATION_24H

\* C27: a successful recover_stake leaves every Market, Opinion and Reaction
\* record as it was, and afterwards every other staker of the market who has
\* not recovered yet can still recover their own stake.
C27_RecoverFrameAndOthers ==
    [][\A m \in Uuids, u \in Users :
          RecoverStake(u, m) =>
              /\ market' = market
              /\ opinion' = opinion
              /\ reaction' = reaction
              /\ \A v \in Users \ {u} :
                    (OpinionExists(m, v) /\ recoveries[m][v] = 0) =>
                        (RecoverStakeErr(v, m) = "Ok")']_vars

\* C28: every Settled market has total_stake > 0; while total_stake is 0
\* neither finalize_settlement nor run_lottery is accepted from any signer,
\* and on a Scored market the oracle's call returns EmptyPrizePool; a market
\* past Active with total_stake = 0 holds no stake, so it stays unsettled.
C28_NoEmptySettlement ==
    \A m \in Uuids :
        MarketExists(m) =>
            /\ market[m].state = "Settled" => market[m].total_stake > 0
            /\ market[m].total_stake = 0 =>
                  /\ market[m].state # "Settled"
                  /\ Stakers(m) = {}
                  /\ \A s \in Signers : FinalizeSettlementErr(s, m) # "Ok"
                  /\ \A s \in Signers, w \in Users, ao \in Users :
                        RunLotteryErr(s, m, w, ao) # "Ok"
                  /\ market[m].state = "Scored" =>
                        /\ FinalizeSettlementErr(Oracle, m) = "EmptyPrizePool"
                        /\ \A w \in Users :
                              RunLotteryErr(Oracle, m, w, w) = "EmptyPrizePool"

\* C28 witness: a market that was closed and scored without any stake; the
\* oracle's finalize_settlement and run_lottery return EmptyPrizePool.
C28_Witness ==
    \E m \in Uuids :
        /\ MarketExists(m)
        /\ market[m].state = "Scored"
        /\ market[m].total_stake = 0
        /\ FinalizeSettlementErr(Oracle, m) = "EmptyPrizePool"
        /\ RunLotteryErr(Oracle, m, "alice", "alice") = "EmptyPrizePool"

\* C29: in a market settled by finalize_settlement (its distributable_pool is
\* then above 0) the escrow balance equals distributable_pool minus the sum
\* of payout_amount over its paid opinions, also when recover_stake ran
\* before the finalization.
C29_EscrowIsUnclaimedPool ==
    \A m \in Uuids :
        (MarketExists(m) /\ market[m].state = "Settled"
            /\ market[m].distributable_pool > 0) =>
            escrow[m] = market[m].distributable_pool - PayoutAmounts(m)

\* C30: on a Settled market every opinion the oracle has settled holds
\* combined_score = floor((weight_score*50 + consensus_score*30 +
\* ai_score*20) / 100), computed from the weight_score, consensus_score and
\* ai_score stored on that opinion, in whatever order record_ai_score and
\* settle_opinion were called.
C30_CombinedMatchesStored ==
    \A m \in Uuids, o \in Users :
        (MarketExists(m) /\ market[m].state = "Settled" /\ HasBeenSettled(m, o)) =>
            opinion[m][o].combined_score =
                (opinion[m][o].weight_score * 50
                    + opinion[m][o].consensus_score * 30
                    + opinion[m][o].ai_score * 20) \div 100

\* the fields of opinion o of market m that the scoring instructions write
ScoreFields(m, o) ==
    <<opinion[m][o].ai_score, opinion[m][o].weight_score,
      opinion[m][o].consensus_score, opinion[m][o].combined_score>>

\* C31 (state part): while the market is not Scored, record_ai_score and
\* settle_opinion are accepted from no signer, and the oracle's call with
\* scores of at most 100 returns MarketNotScored.
C31_ScoringOnlyWhenScored ==
    \A m \in Uuids, o \in Users :
        (MarketExists(m) /\ OpinionExists(m, o) /\ market[m].state # "Scored") =>
            /\ \A s \in Signers, a \in AiScoreInputs :
                  /\ RecordAiScoreErr(s, m, o, a) # "Ok"
                  /\ (s = Oracle /\ a <= 100) =>
                        RecordAiScoreErr(s, m, o, a) = "MarketNotScored"
            /\ \A s \in Signers, cr \in CrowdInputs, w \in WeightInputs,
                  c \in ConsensusInputs :
                  /\ SettleOpinionErr(s, m, o, cr, w, c) # "Ok"
                  /\ (s = Oracle /\ cr <= 100 /\ w <= 100 /\ c <= 100) =>
                        SettleOpinionErr(s, m, o, cr, w, c) = "MarketNotScored"

\* C31 (step part): an opinion's ai_score, weight_score, consensus_score and
\* combined_score and the market's crowd_score change only in a step taken on
\* a Scored market, so none of them changes once the market is Settled, and
\* a claim_payout step leaves them as they are.
C31_ScoresFrozenStep ==
    \A m \in Uuids :
        MarketExists(m) =>
            /\ (market'[m].crowd_score # market[m].crowd_score
                   \/ \E o \in Users :
                         OpinionExists(m, o) /\ ScoreFields(m, o)' # ScoreFields(m, o))
                  => market[m].state = "Scored"
            /\ market[m].state = "Settled" =>
                  /\ market'[m].state = "Settled"
                  /\ market'[m].crowd_score = market[m].crowd_score
                  /\ \A o \in Users :
                        OpinionExists(m, o) => ScoreFields(m, o)' = ScoreFields(m, o)

\* C31: record_ai_score and settle_opinion succeed only while the market is
\* Scored (MarketNotScored otherwise); once the market is Settled no
\* opinion's ai_score, weight_score, consensus_score or combined_score and not
\* the market's crowd_score changes, so every claim_payout reads the same
\* combined_score values.
C31_ScoresFrozenOnceSettled ==
    [](C31_ScoringOnlyWhenScored) /\ [][C31_ScoresFrozenStep]_vars

\* C31 witness: a Settled market on which one opinion has been paid and
\* another, with a non-zero combined_score, has not claimed yet; the oracle's
\* record_ai_score and settle_opinion on it return MarketNotScored.
C31_Witness ==
    \E m \in Uuids, o \in Users, q \in Users :
        /\ MarketExists(m) /\ market[m].state = "Settled"
        /\ OpinionExists(m, o) /\ OpinionExists(m, q)
        /\ opinion[m][o].paid
        /\ ~opinion[m][q].paid /\ opinion[m][q].combined_score > 0
        /\ RecordAiScoreErr(Oracle, m, q, 50) = "MarketNotScored"
        /\ SettleOpinionErr(Oracle, m, q, 60, 80, 90) = "MarketNotScored"

\* market m holds at least one stake
HoldsStake(m) == MarketExists(m) /\ market[m].total_stake > 0

\* the escrow of market m cannot cover the fee finalize_settlement transfers
EscrowBelowFee(m) ==
    MarketExists(m) /\ escrow[m] < ProtocolFee(market[m].total_stake)

IsSettled(m) == MarketExists(m) /\ market[m].state = "Settled"

\* C32 as stated: with the clock, close_market and the oracle's
\* record_sentiment and finalize_settlement weakly fair, every market that
\* holds a stake eventually reaches Settled, whatever stake_opinion,
\* react_to_opinion and recover_stake calls are interleaved.
C32_StakedMarketSettles ==
    \A m \in Uuids : HoldsStake(m) ~> IsSettled(m)

\* C32 amended: under the same fairness every market that holds a stake
\* eventually reaches Settled or has its escrow drained by recover_stake
\* below the protocol fee, where finalize_settlement fails.
C32_SettlesUnlessDrained ==
    \A m \in Uuids :
        HoldsStake(m) ~> (IsSettled(m) \/ EscrowBelowFee(m))

\* C32 witness: a market settled by finalize_settlement although a stake had
\* been recovered from it before.
C32_Witness ==
    \E m \in Uuids, u \in Users :
        /\ MarketExists(m) /\ market[m].state = "Settled"
        /\ market[m].distributable_pool > 0
        /\ recoveries[m][u] >= 1

====
